---- MODULE Spec2Model ----
(***************************************************************************)
(* Model of src/api.js: a Telegram webhook handler that collects a user's  *)
(* portal credentials step by step and scrapes grades from the portal.     *)
(*                                                                         *)
(* Code between two awaits runs atomically on the Node event loop, so each *)
(* action below is one such segment: it ends by issuing the awaited call   *)
(* (an outbound chat message or a portal request) and the next action of   *)
(* the same invocation starts with that call's outcome.                    *)
(***************************************************************************)
EXTENDS Integers, Sequences, FiniteSets, TLC

\* ------------------------------------------------------------------------
\* Values
\* ------------------------------------------------------------------------

\* Texts are sequences of characters; a word that contains no whitespace is
\* written as one element.
Null      == <<"<null>">>
Undefined == <<"<undefined>">>

Space     == " "
CmdStart  == <<"/start">>
CmdHelp   == <<"/help">>
BtnHelp   == <<"(i)", Space, "Help">>
BtnGrades == <<"(#)", Space, "Show", Space, "Grades">>

\* The message texts a sender can supply; Undefined is a message without
\* text (a photo, a sticker).
Texts ==
    { CmdStart, CmdHelp, BtnHelp, BtnGrades,
      <<Space, "alice", Space>>, <<Space>>, Undefined }

Users == {"u1", "u2"}

\* What each sender types: u1 the whole vocabulary, u2 a part of it.
TextsOf(u) == IF u = "u1" THEN Texts ELSE {CmdStart, BtnGrades}
Procs == {"p1", "p2"}
FirstNames == {"Abebe"}

IsSpace(c) == c \in {Space, "\t", "\n"}

RECURSIVE TrimStart(_)
TrimStart(t) ==
    IF t = <<>> THEN <<>>
    ELSE IF IsSpace(Head(t)) THEN TrimStart(Tail(t)) ELSE t

RECURSIVE TrimEnd(_)
TrimEnd(t) ==
    IF t = <<>> THEN <<>>
    ELSE IF IsSpace(t[Len(t)]) THEN TrimEnd(SubSeq(t, 1, Len(t) - 1)) ELSE t

\* String.prototype.trim
Trim(t) == TrimEnd(TrimStart(t))

\* JavaScript's !v for a value that is null, undefined or a string
Falsy(v) == v = Null \/ v = Undefined \/ v = <<>>

\* ------------------------------------------------------------------------
\* Maps (users, userStates)
\* ------------------------------------------------------------------------
EmptyMap == [x \in {} |-> x]
MapHas(m, k) == k \in DOMAIN m
MapSet(m, k, v) == [x \in (DOMAIN m) \cup {k} |-> IF x = k THEN v ELSE m[x]]
MapDelete(m, k) == [x \in (DOMAIN m) \ {k} |-> m[x]]

\* the entry of key k alone
MapOnly(m, k) == [x \in (DOMAIN m) \cap {k} |-> m[x]]

VARIABLES
    users,       \* Map userId -> profile
    userStates,  \* Map userId -> awaited credential
    pc,          \* per invocation: the await it is suspended at
    msg,         \* per invocation: the inbound message
    loc,         \* per invocation: locals of the handlers
    sent,        \* per invocation: bot.sendMessage calls made, in order
    reqs,        \* per invocation: portal requests issued, in order
    ran,         \* per invocation: handlers entered
    res,         \* per invocation: HTTP status of the webhook response
    pre,         \* per invocation: the sender's stored state when the event arrived
    failed       \* per user: credentials of the last failed fetch

vars == <<users, userStates, pc, msg, loc, sent, reqs, ran, res, pre, failed>>

NoMsg == [from |-> "", first_name |-> "", text |-> Undefined]
NoLoc == [state |-> "none", username |-> Undefined, password |-> Undefined,
          csrfToken |-> Undefined, cookies |-> Undefined, grades |-> <<>>,
          err |-> "none"]
NoPre == [users |-> EmptyMap, userStates |-> EmptyMap, failed |-> EmptyMap]

\* The stage of a user: the entry of userStates, "none" when there is none.
Stage(m, u) == IF MapHas(m, u) THEN m[u] ELSE "none"

Init ==
    /\ users = EmptyMap
    /\ userStates = EmptyMap
    /\ pc = [p \in Procs |-> "idle"]
    /\ msg = [p \in Procs |-> NoMsg]
    /\ loc = [p \in Procs |-> NoLoc]
    /\ sent = [p \in Procs |-> <<>>]
    /\ reqs = [p \in Procs |-> <<>>]
    /\ ran = [p \in Procs |-> {}]
    /\ res = [p \in Procs |-> 0]
    /\ pre = [p \in Procs |-> NoPre]
    /\ failed = [u \in Users |-> <<>>]


\* ------------------------------------------------------------------------
\* Outbound calls and returns
\* ------------------------------------------------------------------------

\* await bot.sendMessage(...): the call is made and the invocation suspends
Send(p, kind, next) ==
    /\ sent' = [sent EXCEPT ![p] = Append(@, kind)]
    /\ pc' = [pc EXCEPT ![p] = next]

\* the handler returns normally: res.status(200).json({ ok: true })
Return(p) ==
    /\ pc' = [pc EXCEPT ![p] = "done"]
    /\ res' = [res EXCEPT ![p] = 200]

\* an exception reaches the catch of the serverless handler: res.status(500)
Throw(p) ==
    /\ pc' = [pc EXCEPT ![p] = "done"]
    /\ res' = [res EXCEPT ![p] = 500]

NewProfile(u, fn) ==
    [telegramId |-> u, firstName |-> fn,
     portalUsername |-> Null, portalPassword |-> Null]

\* The portal requests of fetchGradesFromPortal
LoginPageRequest == [url |-> "/", method |-> "GET"]

\* Mutant of TokenField: the attribute value is posted as it was read.
TokenFieldRaw(csrfToken) == csrfToken

\* csrfToken || ''
TokenField(csrfToken) == IF Falsy(csrfToken) THEN <<>> ELSE csrfToken

LoginRequest(username, password, csrfToken) ==
    [url |-> "/Account/Login", method |-> "POST",
     Username |-> username, Password |-> password,
     Token |-> TokenField(csrfToken)]

\* Mutant of CookieHeader: a cookie kept from some other call is sent.
CookieFromJar(cookies) == <<"sid=1">>

\* headers: { Cookie: cookies }
CookieHeader(cookies) == cookies

ResultsRequest(cookies) ==
    [url |-> "/Student/Results", method |-> "GET", Cookie |-> CookieHeader(cookies)]

\* Mutant of LoginFailed: the Set-Cookie header is not inspected.
LoginNeverFailed(cookies) == FALSE

\* if (!cookies) throw new Error('Login failed: ...')
LoginFailed(cookies) == Falsy(cookies)

\* ------------------------------------------------------------------------
\* handleGrades, up to its first await
\* ------------------------------------------------------------------------

\* Mutant of MissingCredential: only null counts as missing.
MissingCredentialNullOnly(user) ==
    IF user.portalUsername = Null THEN "username"
    ELSE IF user.portalPassword = Null THEN "password"
    ELSE "none"

\* Mutant of MissingCredential: the password is asked for first.
MissingCredentialPasswordFirst(user) ==
    IF Falsy(user.portalPassword) THEN "password"
    ELSE IF Falsy(user.portalUsername) THEN "username"
    ELSE "none"

\* Mutant of MissingCredential: only the username is tested.
MissingCredentialUsernameOnly(user) ==
    IF Falsy(user.portalUsername) THEN "username" ELSE "none"

\* if (!user.portalUsername) ... if (!user.portalPassword) ...
MissingCredential(user) ==
    IF Falsy(user.portalUsername) THEN "username"
    ELSE IF Falsy(user.portalPassword) THEN "password"
    ELSE "none"

\* l and r are the locals and the handlers entered so far of invocation p.
HandleGrades(p, u, l, r) ==
    /\ ran' = [ran EXCEPT ![p] = r \cup {"handleGrades"}]
    /\ IF ~MapHas(users, u)
       THEN \* user is undefined: reading user.portalUsername throws TypeError
            /\ Throw(p)
            /\ loc' = [loc EXCEPT ![p] = l]
            /\ UNCHANGED <<userStates, sent, reqs>>
       ELSE CASE MissingCredential(users[u]) = "username" ->
                 /\ userStates' = MapSet(userStates, u, "awaiting_username")
                 /\ Send(p, "promptUsername", "hg_prompt")
                 /\ loc' = [loc EXCEPT ![p] = l]
                 /\ UNCHANGED <<reqs, res>>
              [] MissingCredential(users[u]) = "password" ->
                 /\ userStates' = MapSet(userStates, u, "awaiting_password")
                 /\ Send(p, "promptPassword", "hg_prompt")
                 /\ loc' = [loc EXCEPT ![p] = l]
                 /\ UNCHANGED <<reqs, res>>
              [] OTHER ->
                 \* fetchGradesFromPortal(user.portalUsername, user.portalPassword)
                 /\ loc' = [loc EXCEPT ![p] =
                              [l EXCEPT !.username = users[u].portalUsername,
                                        !.password = users[u].portalPassword]]
                 /\ reqs' = [reqs EXCEPT ![p] = Append(@, LoginPageRequest)]
                 /\ pc' = [pc EXCEPT ![p] = "fg_loginPage"]
                 /\ UNCHANGED <<userStates, sent, res>>

\* ------------------------------------------------------------------------
\* handleMessage, up to its first await
\* ------------------------------------------------------------------------

\* switch (text)
Route(text) ==
    CASE text = CmdStart -> "handleStart"
      [] text = CmdHelp \/ text = BtnHelp -> "handleHelp"
      [] text = BtnGrades -> "handleGrades"
      [] OTHER -> "showMainMenu"

\* Mutant of Dispatch: a command or button is recognised before the stage
\* is looked at.
DispatchCommandsFirst(state, text) ==
    IF Route(text) # "showMainMenu" THEN Route(text)
    ELSE IF state = "awaiting_username" THEN "username"
    ELSE IF state = "awaiting_password" THEN "password"
    ELSE "showMainMenu"

\* if (state) { if (state.state === ...) ... } switch (text) { ... }
Dispatch(state, text) ==
    CASE state = "awaiting_username" -> "username"
      [] state = "awaiting_password" -> "password"
      [] OTHER -> Route(text)

\* userStates.set(userId, { state: 'awaiting_password' })
AfterUsername(m, u) == MapSet(m, u, "awaiting_password")

\* Mutant of AfterPassword: the dialogue is restarted instead of closed.
AfterPasswordRestart(m, u) == MapSet(m, u, "awaiting_username")

\* userStates.delete(userId)
AfterPassword(m, u) == MapDelete(m, u)

\* Mutant of StoreUsername: the username is written into every profile.
StoreUsernameForAll(m, u, text) ==
    [x \in DOMAIN m |-> [m[x] EXCEPT !.portalUsername = Trim(text)]]

\* user.portalUsername = text.trim(); users.set(userId, user)
StoreUsername(m, u, text) ==
    MapSet(m, u, [m[u] EXCEPT !.portalUsername = Trim(text)])

\* Mutant of StorePassword: the text is written to both credentials.
StorePasswordAsBoth(m, u, text) ==
    MapSet(m, u, [m[u] EXCEPT !.portalUsername = Trim(text),
                              !.portalPassword = Trim(text)])

\* user.portalPassword = text.trim(); users.set(userId, user)
StorePassword(m, u, text) ==
    MapSet(m, u, [m[u] EXCEPT !.portalPassword = Trim(text)])

\* Mutant of EnsureProfile: the profile is created anew on every '/start'.
EnsureProfileOverwrites(m, u, fn) == MapSet(m, u, NewProfile(u, fn))

\* users.has(userId) || users.set(userId, {...})
EnsureProfile(m, u, fn) ==
    IF MapHas(m, u) THEN m ELSE MapSet(m, u, NewProfile(u, fn))

\* POST with update.message: handleMessage(update.message)
Post(p, u, fn, t) ==
    /\ pc[p] = "idle"
    /\ msg' = [msg EXCEPT ![p] = [from |-> u, first_name |-> fn, text |-> t]]
    /\ pre' = [pre EXCEPT ![p] = [users |-> MapOnly(users, u),
                                  userStates |-> MapOnly(userStates, u),
                                  failed |-> MapOnly(failed, u)]]
    /\ UNCHANGED failed
    /\ LET state == Stage(userStates, u)
           l == [NoLoc EXCEPT !.state = state]
           d == Dispatch(state, t)
       IN  CASE d = "username" ->
                /\ loc' = [loc EXCEPT ![p] = l]
                /\ UNCHANGED <<reqs, ran>>
                /\ IF t = Undefined \/ ~MapHas(users, u)
                   THEN \* text.trim() or user.portalUsername throws TypeError
                        /\ Throw(p)
                        /\ UNCHANGED <<users, userStates, sent>>
                   ELSE /\ users' = StoreUsername(users, u, t)
                        /\ userStates' = AfterUsername(userStates, u)
                        /\ Send(p, "usernameSaved", "hm_usernameSaved")
                        /\ UNCHANGED res
             [] d = "password" ->
                /\ loc' = [loc EXCEPT ![p] = l]
                /\ UNCHANGED <<reqs, ran>>
                /\ IF t = Undefined \/ ~MapHas(users, u)
                   THEN /\ Throw(p)
                        /\ UNCHANGED <<users, userStates, sent>>
                   ELSE /\ users' = StorePassword(users, u, t)
                        /\ userStates' = AfterPassword(userStates, u)
                        /\ Send(p, "passwordSaved", "hm_passwordSaved")
                        /\ UNCHANGED res
             [] d = "handleStart" ->
                /\ users' = EnsureProfile(users, u, fn)
                /\ ran' = [ran EXCEPT ![p] = {"handleStart"}]
                /\ Send(p, "welcome", "hs_welcome")
                /\ loc' = [loc EXCEPT ![p] = l]
                /\ UNCHANGED <<userStates, reqs, res>>
             [] d = "handleHelp" ->
                /\ ran' = [ran EXCEPT ![p] = {"handleHelp"}]
                /\ Send(p, "help", "hh_help")
                /\ loc' = [loc EXCEPT ![p] = l]
                /\ UNCHANGED <<users, userStates, reqs, res>>
             [] d = "handleGrades" ->
                /\ HandleGrades(p, u, l, {})
                /\ UNCHANGED users
             [] OTHER ->
                /\ ran' = [ran EXCEPT ![p] = {"showMainMenu"}]
                /\ Send(p, "menu", "menu")
                /\ loc' = [loc EXCEPT ![p] = l]
                /\ UNCHANGED <<users, userStates, reqs, res>>


\* ------------------------------------------------------------------------
\* Continuations after an awaited bot.sendMessage
\* ------------------------------------------------------------------------

\* sends after which the handler has nothing left to do
LastSends == {"hm_usernameSaved", "hh_help", "menu", "hg_prompt"}

\* sends that are not inside handleGrades' try block
UncaughtSends == LastSends \cup {"hs_welcome", "hm_passwordSaved", "hg_fetchFailed"}

\* the awaited send resolved and the handler returns
SendResolved(p) ==
    /\ pc[p] \in LastSends \cup {"hg_fetchFailed", "hg_noGrades", "hg_grades"}
    /\ Return(p)
    /\ UNCHANGED <<users, userStates, msg, loc, sent, reqs, ran, pre, failed>>

\* the awaited send rejected outside any try block
SendRejected(p) ==
    /\ pc[p] \in UncaughtSends
    /\ Throw(p)
    /\ UNCHANGED <<users, userStates, msg, loc, sent, reqs, ran, pre, failed>>

\* handleStart after the welcome message: await showMainMenu(chatId)
Welcomed(p) ==
    /\ pc[p] = "hs_welcome"
    /\ ran' = [ran EXCEPT ![p] = @ \cup {"showMainMenu"}]
    /\ Send(p, "menu", "menu")
    /\ UNCHANGED <<users, userStates, msg, loc, reqs, res, pre, failed>>

\* handleMessage after "Password saved!": await handleGrades(msg)
PasswordSaved(p) ==
    /\ pc[p] = "hm_passwordSaved"
    /\ HandleGrades(p, msg[p].from, loc[p], ran[p])
    /\ UNCHANGED <<users, msg, pre, failed>>

\* ------------------------------------------------------------------------
\* fetchGradesFromPortal and the rest of handleGrades
\* ------------------------------------------------------------------------

\* What the portal can answer
CsrfTokens == {Undefined, <<"T">>}
SetCookies == {Null, <<>>, <<"sid=1">>, <<"sid=2">>}
NoTablePage == [table |-> FALSE, rows |-> <<>>]
HeaderOnlyPage == [table |-> TRUE, rows |-> << <<>> >>]
OneGradePage ==
    [table |-> TRUE,
     rows |-> << <<>>, << <<"CS101">>, <<Space, "A">>, <<"Sem1", Space>> >> >>]
ShortRowPage == [table |-> TRUE, rows |-> << << <<"CS102">> >> >>]
Pages == {NoTablePage, HeaderOnlyPage, OneGradePage, ShortRowPage}

\* $$(tds[i]).text().trim(); a missing cell has the empty text
CellText(tds, i) == IF i <= Len(tds) THEN Trim(tds[i]) ELSE <<>>

GradeOf(tds) ==
    [course |-> CellText(tds, 1), grade |-> CellText(tds, 2),
     semester |-> CellText(tds, 3)]

RECURSIVE ScrapeRows(_)
ScrapeRows(rows) ==
    IF rows = <<>> THEN <<>>
    ELSE IF Len(Head(rows)) > 0
         THEN <<GradeOf(Head(rows))>> \o ScrapeRows(Tail(rows))
         ELSE ScrapeRows(Tail(rows))

\* $$('table#grades tr').each(...)
Scrape(page) == IF page.table THEN ScrapeRows(page.rows) ELSE <<>>

\* catch (err) in handleGrades: the failure message is sent
Catch(p) == Send(p, "fetchFailed", "hg_fetchFailed")

\* the credentials a user's profile holds
Credentials(m, u) == <<m[u].portalUsername, m[u].portalPassword>>

\* Mutant of FetchFailure: the catch block forgets the stored credentials.
FetchFailureForgets(p) ==
    /\ Catch(p)
    /\ failed' = [failed EXCEPT ![msg[p].from] = <<loc[p].username, loc[p].password>>]
    /\ users' = MapSet(users, msg[p].from,
                       [users[msg[p].from] EXCEPT !.portalUsername = Null,
                                                  !.portalPassword = Null])
    /\ UNCHANGED userStates

\* fetchGradesFromPortal threw: what the catch block does to the stored state
FetchFailure(p) ==
    /\ Catch(p)
    /\ failed' = [failed EXCEPT ![msg[p].from] = <<loc[p].username, loc[p].password>>]
    /\ UNCHANGED <<users, userStates>>

\* a portal request was rejected (transport failure)
FetchRejected(p) ==
    /\ pc[p] \in {"fg_loginPage", "fg_login", "fg_results"}
    /\ FetchFailure(p)
    /\ loc' = [loc EXCEPT ![p].err = "FetchError"]
    /\ UNCHANGED <<msg, reqs, ran, res, pre>>

\* the login page arrived: the token is read and the login form is posted
LoginPageLoaded(p, token) ==
    /\ pc[p] = "fg_loginPage"
    /\ loc' = [loc EXCEPT ![p].csrfToken = token]
    /\ reqs' = [reqs EXCEPT ![p] =
                  Append(@, LoginRequest(loc[p].username, loc[p].password, token))]
    /\ pc' = [pc EXCEPT ![p] = "fg_login"]
    /\ UNCHANGED <<users, userStates, msg, sent, ran, res, pre, failed>>

\* the login response arrived
LoginAnswered(p, cookies) ==
    /\ pc[p] = "fg_login"
    /\ IF LoginFailed(cookies)
       THEN /\ loc' = [loc EXCEPT ![p].cookies = cookies, ![p].err = "Login failed"]
            /\ FetchFailure(p)
            /\ UNCHANGED reqs
       ELSE /\ loc' = [loc EXCEPT ![p].cookies = cookies]
            /\ reqs' = [reqs EXCEPT ![p] = Append(@, ResultsRequest(cookies))]
            /\ pc' = [pc EXCEPT ![p] = "fg_results"]
            /\ UNCHANGED <<users, userStates, sent, failed>>
    /\ UNCHANGED <<msg, ran, res, pre>>

\* Mutant of ResultsLoaded: an empty result makes the handler fetch again.
ResultsLoadedRefetch(p, page) ==
    /\ pc[p] = "fg_results"
    /\ loc' = [loc EXCEPT ![p].grades = Scrape(page)]
    /\ IF Len(Scrape(page)) = 0
       THEN /\ reqs' = [reqs EXCEPT ![p] = Append(@, LoginPageRequest)]
            /\ pc' = [pc EXCEPT ![p] = "fg_loginPage"]
            /\ UNCHANGED <<sent, res>>
       ELSE /\ Send(p, "grades", "hg_grades")
            /\ UNCHANGED <<reqs, res>>
    /\ UNCHANGED <<users, userStates, msg, ran, pre, failed>>

\* the grades page arrived: it is scraped and the result is reported
ResultsLoaded(p, page) ==
    /\ pc[p] = "fg_results"
    /\ loc' = [loc EXCEPT ![p].grades = Scrape(page)]
    /\ IF Len(Scrape(page)) = 0
       THEN Send(p, "noGrades", "hg_noGrades")
       ELSE Send(p, "grades", "hg_grades")
    /\ UNCHANGED <<users, userStates, msg, reqs, ran, res, pre, failed>>

\* a send inside the try block rejected: the catch block runs
ReportRejected(p) ==
    /\ pc[p] \in {"hg_noGrades", "hg_grades"}
    /\ Catch(p)
    /\ loc' = [loc EXCEPT ![p].err = "SendError"]
    /\ UNCHANGED <<users, userStates, msg, reqs, ran, res, pre, failed>>

\* ------------------------------------------------------------------------
\* The webhook response
\* ------------------------------------------------------------------------
Count(s, kinds) == Cardinality({i \in DOMAIN s : s[i] \in kinds})
UsernamePrompts(s) == Count(s, {"promptUsername"})
PasswordPrompts(s) == Count(s, {"promptPassword", "usernameSaved"})

\* the response is written and the invocation ends
Respond(p) ==
    /\ pc[p] = "done"
    /\ pc' = [pc EXCEPT ![p] = "idle"]
    /\ msg' = [msg EXCEPT ![p] = NoMsg]
    /\ loc' = [loc EXCEPT ![p] = NoLoc]
    /\ sent' = [sent EXCEPT ![p] = <<>>]
    /\ reqs' = [reqs EXCEPT ![p] = <<>>]
    /\ ran' = [ran EXCEPT ![p] = {}]
    /\ res' = [res EXCEPT ![p] = 0]
    /\ pre' = [pre EXCEPT ![p] = NoPre]
    /\ UNCHANGED <<users, userStates, failed>>

\* ------------------------------------------------------------------------
\* Specification: one event is handled to completion before the next
\* ------------------------------------------------------------------------
AllIdle == \A q \in Procs : pc[q] = "idle"

Step(p) ==
    \/ SendResolved(p)
    \/ SendRejected(p)
    \/ Welcomed(p)
    \/ PasswordSaved(p)
    \/ FetchRejected(p)
    \/ \E token \in CsrfTokens : LoginPageLoaded(p, token)
    \/ \E cookies \in SetCookies : LoginAnswered(p, cookies)
    \/ \E page \in Pages : ResultsLoaded(p, page)
    \/ ReportRejected(p)
    \/ Respond(p)

Receive(p) ==
    \E u \in Users, fn \in FirstNames : \E t \in TextsOf(u) : Post(p, u, fn, t)

\* the next event arrives once the previous one has been answered
ReceiveNext ==
    /\ AllIdle
    /\ Receive("p1")

Next ==
    \/ ReceiveNext
    \/ \E p \in Procs : Step(p)

Spec == Init /\ [][Next]_vars

\* ------------------------------------------------------------------------
\* Specifications: events are handled concurrently. A request may arrive
\* while another invocation is suspended at an await; the segments of the
\* invocations interleave.
\* ------------------------------------------------------------------------

\* What the senders type and what the portal answers in these specifications
RaceTextsOf(u) ==
    IF u = "u1" THEN {CmdStart, BtnGrades, <<Space>>} ELSE {CmdStart, BtnGrades}
RaceCsrfTokens == {<<"T">>}
RaceSetCookies == {Null, <<"sid=1">>}
RacePages == {NoTablePage, OneGradePage}

ReceiveFrom(p, u) ==
    \E fn \in FirstNames : \E t \in RaceTextsOf(u) : Post(p, u, fn, t)

\* an invocation suspended at an await is resumed
Resume(p) ==
    \/ SendResolved(p)
    \/ SendRejected(p)
    \/ Welcomed(p)
    \/ PasswordSaved(p)
    \/ FetchRejected(p)
    \/ \E token \in RaceCsrfTokens : LoginPageLoaded(p, token)
    \/ \E cookies \in RaceSetCookies : LoginAnswered(p, cookies)
    \/ \E page \in RacePages : ResultsLoaded(p, page)
    \/ ReportRejected(p)

StepAny(p) ==
    \/ Resume(p)
    \/ Respond(p)

\* Events of different users overlap: each user has at most one event in
\* flight, handled by the invocation of that user.
InvocationOf(u) == IF u = "u1" THEN "p1" ELSE "p2"

ReceiveApart == \E u \in Users : ReceiveFrom(InvocationOf(u), u)

NextUsers ==
    \/ ReceiveApart
    \/ \E p \in Procs : StepAny(p)

SpecUsers == Init /\ [][NextUsers]_vars

\* Events of one user overlap: an event of the user arrives while the
\* handling of an earlier event of the same user is suspended at an await.
RaceUser == "u1"

ReceiveFirst ==
    /\ AllIdle
    /\ ReceiveFrom("p1", RaceUser)

ReceiveSecond ==
    /\ pc["p1"] \notin {"idle", "done"}
    /\ ReceiveFrom("p2", RaceUser)

\* The record of the overlapping event is kept until the earlier event has
\* been handled, so that the two can be compared.
RespondInOrder ==
    \E p \in Procs :
        /\ p = "p2" => pc["p1"] \in {"idle", "done"}
        /\ Respond(p)

NextRace ==
    \/ ReceiveFirst
    \/ ReceiveSecond
    \/ \E p \in Procs : Resume(p)
    \/ RespondInOrder

SpecRace == Init /\ [][NextRace]_vars


\* ------------------------------------------------------------------------
\* The stored state an event leaves behind when it is handled alone and
\* every awaited send resolves. s is [users |-> ..., userStates |-> ...].
\* ------------------------------------------------------------------------

\* handleGrades: the stage is set when a credential is missing
GradesHandled(s, u) ==
    IF ~MapHas(s.users, u) THEN s
    ELSE CASE MissingCredential(s.users[u]) = "username" ->
                 [s EXCEPT !.userStates = MapSet(@, u, "awaiting_username")]
           [] MissingCredential(s.users[u]) = "password" ->
                 [s EXCEPT !.userStates = MapSet(@, u, "awaiting_password")]
           [] OTHER -> s

\* handleMessage
Handled(s, u, fn, t) ==
    LET d == Dispatch(Stage(s.userStates, u), t) IN
    CASE d = "username" ->
            IF t = Undefined \/ ~MapHas(s.users, u) THEN s
            ELSE [users |-> StoreUsername(s.users, u, t),
                  userStates |-> AfterUsername(s.userStates, u)]
      [] d = "password" ->
            IF t = Undefined \/ ~MapHas(s.users, u) THEN s
            ELSE GradesHandled([users |-> StorePassword(s.users, u, t),
                                userStates |-> AfterPassword(s.userStates, u)], u)
      [] d = "handleStart" -> [s EXCEPT !.users = EnsureProfile(@, u, fn)]
      [] d = "handleGrades" -> GradesHandled(s, u)
      [] OTHER -> s

\* ------------------------------------------------------------------------
\* Vocabulary of the properties
\* ------------------------------------------------------------------------
Active(p) == pc[p] # "idle"
Done(p) == pc[p] = "done"
Sender(p) == msg[p].from
HasText(p) == msg[p].text # Undefined
StageNow(p) == Stage(userStates, Sender(p))
Prompts == {"promptUsername", "promptPassword", "usernameSaved"}
FetchStarted(p) == reqs[p] # <<>>
WasSent(p, kind) == \E i \in DOMAIN sent[p] : sent[p][i] = kind

\* the credentials stored for a user; none are stored without a profile
StoredUsername(m, u) == IF MapHas(m, u) THEN m[u].portalUsername ELSE Null
StoredPassword(m, u) == IF MapHas(m, u) THEN m[u].portalPassword ELSE Null

\* fetchGradesFromPortal has thrown in invocation p
FetchFailed(p) == loc[p].err \in {"FetchError", "Login failed"}

IsResultsRequest(r) == r.url = "/Student/Results"

\* a profile that holds no credential yet
IsFresh(m, u) ==
    /\ MapHas(m, u)
    /\ m[u].portalUsername = Null
    /\ m[u].portalPassword = Null

\* C1: an event that arrives while its sender's stage is awaiting_username
\* or awaiting_password never enters the start handler, the help handler or
\* the main menu, and its text, whatever it is, is stored (trimmed) as the
\* awaited credential.
C1_DispatchOrder ==
    \A p \in Procs :
        (Active(p) /\ MapHas(pre[p].userStates, Sender(p))) =>
            /\ ran[p] \cap {"handleStart", "handleHelp", "showMainMenu"} = {}
            /\ (HasText(p) /\ pre[p].userStates[Sender(p)] = "awaiting_username") =>
                   /\ users[Sender(p)].portalUsername = Trim(msg[p].text)
                   /\ sent[p][1] = "usernameSaved"
            /\ (HasText(p) /\ pre[p].userStates[Sender(p)] = "awaiting_password") =>
                   /\ users[Sender(p)].portalPassword = Trim(msg[p].text)
                   /\ sent[p][1] = "passwordSaved"

C1_Witness ==
    \E p \in Procs :
        /\ Done(p)
        /\ MapHas(pre[p].userStates, Sender(p))
        /\ pre[p].userStates[Sender(p)] = "awaiting_password"
        /\ msg[p].text = CmdHelp
        /\ users[Sender(p)].portalPassword = CmdHelp
        /\ users[Sender(p)].portalUsername = BtnGrades


\* The dialogue of a fresh user (C2). The grade request of a user whose
\* profile holds no credentials, made in stage none, ends in
\* awaiting_username with one username prompt; the next text of that user
\* (the first one taken as a username) ends in awaiting_password with one
\* password prompt; the text after that (the first one taken as a password)
\* ends in stage none with no further prompt: none -> awaiting_username ->
\* awaiting_password -> none, one prompt of each kind, whatever the texts.
C2_FirstStep(p) ==
    (/\ msg[p].text = BtnGrades
     /\ ~MapHas(pre[p].userStates, Sender(p))
     /\ IsFresh(pre[p].users, Sender(p))) =>
        /\ StageNow(p) = "awaiting_username"
        /\ UsernamePrompts(sent[p]) = 1
        /\ PasswordPrompts(sent[p]) = 0

C2_SecondStep(p) ==
    (/\ HasText(p)
     /\ Stage(pre[p].userStates, Sender(p)) = "awaiting_username"
     /\ pre[p].users[Sender(p)].portalUsername = Null) =>
        /\ StageNow(p) = "awaiting_password"
        /\ UsernamePrompts(sent[p]) = 0
        /\ PasswordPrompts(sent[p]) = 1

C2_ThirdStep(p) ==
    (/\ HasText(p)
     /\ Stage(pre[p].userStates, Sender(p)) = "awaiting_password"
     /\ pre[p].users[Sender(p)].portalPassword = Null) =>
        /\ StageNow(p) = "none"
        /\ UsernamePrompts(sent[p]) = 0
        /\ PasswordPrompts(sent[p]) = 0

\* C2: each of the three steps of a fresh user's dialogue ends in the next
\* stage of none -> awaiting_username -> awaiting_password -> none with the
\* prompts counted above.
C2_FreshUserDialogue ==
    \A p \in Procs :
        Done(p) => C2_FirstStep(p) /\ C2_SecondStep(p) /\ C2_ThirdStep(p)

\* C3: a grade request that arrives in stage none prompts for the username
\* and moves to awaiting_username when no username is stored; otherwise
\* prompts for the password and moves to awaiting_password when no password
\* is stored; otherwise starts a fetch, sends no prompt and stays in none.
C3_TransitionTable ==
    \A p \in Procs :
        (/\ Active(p)
         /\ msg[p].text = BtnGrades
         /\ ~MapHas(pre[p].userStates, Sender(p))) =>
            IF Falsy(StoredUsername(pre[p].users, Sender(p)))
            THEN /\ sent[p] = <<"promptUsername">>
                 /\ StageNow(p) = "awaiting_username"
                 /\ ~FetchStarted(p)
            ELSE IF Falsy(StoredPassword(pre[p].users, Sender(p)))
            THEN /\ sent[p] = <<"promptPassword">>
                 /\ StageNow(p) = "awaiting_password"
                 /\ ~FetchStarted(p)
            ELSE /\ FetchStarted(p)
                 /\ \A i \in DOMAIN sent[p] : sent[p][i] \notin Prompts
                 /\ StageNow(p) = "none"

\* C4: a text that is empty after trimming is never stored as a credential
\* and does not advance the stage.
C4_NonEmptyCredentials ==
    /\ \A u \in DOMAIN users :
           /\ users[u].portalUsername # <<>>
           /\ users[u].portalPassword # <<>>
    /\ \A p \in Procs :
           (/\ Active(p)
            /\ HasText(p)
            /\ Trim(msg[p].text) = <<>>
            /\ MapHas(pre[p].userStates, Sender(p))) =>
               StageNow(p) = pre[p].userStates[Sender(p)]

\* C5: every user who has sent a message has a profile.
C5_ProfileExists ==
    \A p \in Procs : Active(p) => MapHas(users, Sender(p))


\* C6: the stage of a user changes only along none -> awaiting_username ->
\* awaiting_password -> none, or from none to awaiting_password when a
\* username is stored; every single assignment to the stage, also those
\* made one after the other while one event is handled, follows these edges.
StageEdge(a, b, username) ==
    \/ a = b
    \/ a = "none" /\ b = "awaiting_username"
    \/ a = "awaiting_username" /\ b = "awaiting_password"
    \/ a = "awaiting_password" /\ b = "none"
    \/ a = "none" /\ b = "awaiting_password" /\ ~Falsy(username)

C7_PasswordTriggersFetch ==
    \A p \in Procs :
        (/\ Done(p)
         /\ res[p] = 200
         /\ HasText(p)
         /\ Stage(pre[p].userStates, Sender(p)) = "awaiting_password"
         /\ MapHas(pre[p].users, Sender(p))) =>
            /\ StageNow(p) = "none"
            /\ FetchStarted(p)
            /\ loc[p].username = pre[p].users[Sender(p)].portalUsername
            /\ loc[p].password = Trim(msg[p].text)

\* C8: when fetchGradesFromPortal has thrown, the stored credentials are
\* still the ones the fetch was called with and the stage is none; a grade
\* request that arrives after a failed fetch starts a fetch with the
\* credentials of the failed one and sends no prompt.
C8_FailedFetchKeepsCredentials ==
    \A p \in Procs :
        /\ FetchFailed(p) =>
               /\ Credentials(users, Sender(p)) = <<loc[p].username, loc[p].password>>
               /\ StageNow(p) = "none"
        /\ (/\ Active(p)
            /\ msg[p].text = BtnGrades
            /\ pre[p].failed[Sender(p)] # <<>>) =>
               /\ FetchStarted(p)
               /\ <<loc[p].username, loc[p].password>> = pre[p].failed[Sender(p)]
               /\ \A i \in DOMAIN sent[p] : sent[p][i] \notin Prompts

\* a grade request after a failed fetch has fetched again and failed again
C8_Witness ==
    \E p \in Procs :
        /\ Done(p)
        /\ msg[p].text = BtnGrades
        /\ pre[p].failed[Sender(p)] # <<>>
        /\ loc[p].err = "Login failed"
        /\ Len(reqs[p]) = 2

\* C9: when the login response has no Set-Cookie header, the call fails with
\* the login failure and issues no request for the grades page.
C9_NoCookieNoResults ==
    \A p \in Procs :
        loc[p].cookies = Null =>
            /\ loc[p].err = "Login failed"
            /\ \A i \in DOMAIN reqs[p] : ~IsResultsRequest(reqs[p][i])
            /\ sent[p][Len(sent[p])] = "fetchFailed"

C9_Witness ==
    \E p \in Procs :
        /\ Done(p)
        /\ loc[p].cookies = Null
        /\ Len(reqs[p]) = 2
        /\ loc[p].err = "Login failed"

\* C10 as stated: whenever the login response has a Set-Cookie header, the
\* grades page is requested in the same call with that header's value.
C10_CookieAttached ==
    \A p \in Procs :
        loc[p].cookies \notin {Undefined, Null} =>
            /\ Len(reqs[p]) = 3
            /\ IsResultsRequest(reqs[p][3])
            /\ reqs[p][3].Cookie = loc[p].cookies

\* C10 amended: whenever the login response has a Set-Cookie header with a
\* non-empty value, the grades page is requested in the same call with
\* exactly that value, and no request of the call carries another cookie.
C10_NonEmptyCookieAttached ==
    \A p \in Procs :
        /\ ~Falsy(loc[p].cookies) =>
               /\ Len(reqs[p]) = 3
               /\ IsResultsRequest(reqs[p][3])
               /\ reqs[p][3].Cookie = loc[p].cookies
        /\ \A i \in DOMAIN reqs[p] :
               IsResultsRequest(reqs[p][i]) => reqs[p][i].Cookie = loc[p].cookies

C10_Witness ==
    \E p \in Procs :
        /\ Done(p)
        /\ loc[p].cookies = <<"sid=2">>
        /\ Len(reqs[p]) = 3
        /\ reqs[p][3].Cookie = <<"sid=2">>
        /\ sent[p] = <<"grades">>


\* ------------------------------------------------------------------------
\* C11: events of different users are handled concurrently without
\* interference. Every step of an invocation leaves the profile, the
\* credentials and the stage of every user other than its sender unchanged,
\* and leaves the other invocations' position, prompts and portal requests
\* unchanged; a fetch is started with the credentials of the sender's own
\* profile. (Specification SpecUsers.)
\* ------------------------------------------------------------------------
ActingSender(p) == IF pc[p] = "idle" THEN msg'[p].from ELSE msg[p].from

C11_OthersUntouched ==
    \A p \in Procs : pc'[p] # pc[p] =>
        /\ \A v \in Users \ {ActingSender(p)} :
              /\ MapHas(users', v) = MapHas(users, v)
              /\ MapHas(users, v) => users'[v] = users[v]
              /\ Stage(userStates', v) = Stage(userStates, v)
        /\ \A q \in Procs \ {p} :
              /\ pc'[q] = pc[q]
              /\ sent'[q] = sent[q]
              /\ reqs'[q] = reqs[q]
              /\ loc'[q] = loc[q]

C11_OwnCredentials ==
    \A p \in Procs : FetchStarted(p) =>
        /\ loc[p].username = users[Sender(p)].portalUsername
        /\ loc[p].password = users[Sender(p)].portalPassword

C11_UsersIsolated == [](C11_OwnCredentials) /\ [][C11_OthersUntouched]_vars

C11_Witness ==
    /\ pc["p1"] = "fg_login" /\ Sender("p1") = "u1"
    /\ pc["p2"] = "hm_usernameSaved" /\ Sender("p2") = "u2"
    /\ users["u2"].portalUsername # users["u1"].portalUsername

\* ------------------------------------------------------------------------
\* C12: '/start' for a user who has a profile leaves the profile and its
\* credentials as they were; for a user without one it creates a profile
\* whose portalUsername and portalPassword are null. Ensuring twice gives
\* the same credentials as ensuring once.
\* ------------------------------------------------------------------------
C12_EnsureIdempotent ==
    /\ \A p \in Procs : "handleStart" \in ran[p] =>
          LET u == Sender(p) IN
          /\ MapHas(users, u)
          /\ IF MapHas(pre[p].users, u)
             THEN users[u] = pre[p].users[u]
             ELSE /\ users[u].portalUsername = Null
                  /\ users[u].portalPassword = Null
    /\ \A u \in Users, fn \in FirstNames :
          LET once == EnsureProfile(users, u, fn)
              twice == EnsureProfile(once, u, fn)
          IN  Credentials(twice, u) = Credentials(once, u)

C12_Witness ==
    \E p \in Procs :
        /\ Done(p) /\ "handleStart" \in ran[p]
        /\ MapHas(pre[p].users, Sender(p))
        /\ ~Falsy(pre[p].users[Sender(p)].portalUsername)
        /\ ~Falsy(users[Sender(p)].portalPassword)


\* ------------------------------------------------------------------------
\* C13: when the three portal requests succeed and the grades page has no
\* table or no data row, the fetch returns the empty sequence, the no-grades
\* message is sent and the fetch-failure message is never sent; when the
\* login is refused or a portal request is rejected, the no-grades message
\* is not sent.
\* ------------------------------------------------------------------------
FetchReturned(p) ==
    /\ Len(reqs[p]) = 3
    /\ pc[p] # "fg_results"
    /\ loc[p].err \in {"none", "SendError"}

C13_EmptyIsNotFailure ==
    \A p \in Procs :
        /\ FetchReturned(p) /\ loc[p].grades = <<>> =>
              /\ WasSent(p, "noGrades")
              /\ ~WasSent(p, "fetchFailed")
        /\ FetchFailed(p) => ~WasSent(p, "noGrades")


\* the same, for the invocations all of whose sends resolved
C13_EmptyIsNotFailureWhenSent ==
    \A p \in Procs :
        /\ FetchReturned(p) /\ loc[p].grades = <<>> /\ loc[p].err = "none" =>
              /\ WasSent(p, "noGrades")
              /\ ~WasSent(p, "fetchFailed")
        /\ FetchFailed(p) => ~WasSent(p, "noGrades")


\* ------------------------------------------------------------------------
\* C14: the handling of one event calls fetchGradesFromPortal at most once
\* (at most one login-page request is issued), and issues at most three
\* portal requests.
\* ------------------------------------------------------------------------
FetchCalls(p) ==
    Cardinality({i \in DOMAIN reqs[p] : reqs[p][i] = LoginPageRequest})

C14_OneFetchThreeRequests ==
    \A p \in Procs :
        /\ FetchCalls(p) <= 1
        /\ Len(reqs[p]) <= 3
        /\ FetchStarted(p) => "handleGrades" \in ran[p]

C14_Witness ==
    \E p \in Procs :
        /\ Done(p)
        /\ WasSent(p, "passwordSaved")
        /\ Len(reqs[p]) = 3
        /\ FetchCalls(p) = 1


\* ------------------------------------------------------------------------
\* C15: within one call of fetchGradesFromPortal the requests are the
\* login-page GET, the login POST and the grades-page GET, in this order,
\* and a request is issued only when the answer to the previous one has
\* arrived; once a request has been rejected no further request is issued
\* and the call has failed; a login page without the token field does not
\* end the call: the login POST is issued with the empty token.
\* ------------------------------------------------------------------------
RequestOrder == <<"/", "/Account/Login", "/Student/Results">>

\* the await at which the answer to the n-th request is awaited
AwaitOf(n) == <<"fg_loginPage", "fg_login", "fg_results">>[n]

C15_InOrder ==
    \A p \in Procs :
        /\ Len(reqs[p]) <= 3
        /\ \A i \in DOMAIN reqs[p] : reqs[p][i].url = RequestOrder[i]
        /\ \A n \in 1..3 : pc[p] = AwaitOf(n) => Len(reqs[p]) = n
        /\ loc[p].err = "FetchError" => WasSent(p, "fetchFailed")
        /\ Len(reqs[p]) >= 2 /\ loc[p].csrfToken = Undefined =>
              reqs[p][2].Token = <<>>

C15_OneAtATime ==
    \A p \in Procs :
        /\ reqs'[p] # reqs[p] /\ reqs'[p] # <<>> =>
              /\ reqs'[p] = Append(reqs[p], reqs'[p][Len(reqs'[p])])
              /\ Len(reqs[p]) > 0 => pc[p] = AwaitOf(Len(reqs[p]))
              /\ pc'[p] = AwaitOf(Len(reqs'[p]))
        /\ loc[p].err = "FetchError" => reqs'[p] \in {reqs[p], <<>>}
        /\ pc[p] = "fg_loginPage" /\ pc'[p] # pc[p] /\ loc'[p].err = "none" =>
              /\ pc'[p] = "fg_login"
              /\ Len(reqs'[p]) = 2

C15_RequestsInSequence == [](C15_InOrder) /\ [][C15_OneAtATime]_vars

C15_Witness ==
    \E p \in Procs :
        /\ loc[p].csrfToken = Undefined
        /\ Len(reqs[p]) = 3
        /\ reqs[p][2].Token = <<>>
        /\ loc[p].err = "FetchError"


\* ------------------------------------------------------------------------
\* C17: a step changes the stored portalUsername of a user only if it is
\* the arrival of an event of that user while the user's stage is
\* awaiting_username, and the stored portalPassword only if it is the
\* arrival of an event of that user while the stage is awaiting_password;
\* every other step (start, help, menu, grade request, the steps of a
\* fetch and its failure) leaves both unchanged. A profile is never removed.
\* ------------------------------------------------------------------------
Consumes(u, stage) ==
    /\ Stage(userStates, u) = stage
    /\ \E p \in Procs : pc[p] = "idle" /\ pc'[p] # "idle" /\ msg'[p].from = u

C17_CredentialFrame ==
    \A u \in Users :
        /\ MapHas(users, u) => MapHas(users', u)
        /\ StoredUsername(users', u) # StoredUsername(users, u) =>
              Consumes(u, "awaiting_username")
        /\ StoredPassword(users', u) # StoredPassword(users, u) =>
              Consumes(u, "awaiting_password")

C17_CredentialsChangeOnlyWhenAwaited == [][C17_CredentialFrame]_vars

C17_Witness ==
    \E p \in Procs :
        /\ pc[p] = "hm_passwordSaved"
        /\ Stage(pre[p].userStates, Sender(p)) = "awaiting_password"
        /\ ~Falsy(pre[p].users[Sender(p)].portalPassword)
        /\ users[Sender(p)].portalPassword
              # pre[p].users[Sender(p)].portalPassword
        /\ users[Sender(p)].portalUsername
              = pre[p].users[Sender(p)].portalUsername


\* ------------------------------------------------------------------------
\* C18: whatever events and texts came before, fetchGradesFromPortal is
\* never called with a username or a password that is null, undefined or
\* the empty string, and the login request carries the same non-empty pair.
\* ------------------------------------------------------------------------
C18_FetchHasCredentials ==
    \A p \in Procs : FetchStarted(p) =>
        /\ ~Falsy(loc[p].username)
        /\ ~Falsy(loc[p].password)
        /\ Len(reqs[p]) >= 2 =>
              /\ reqs[p][2].Username = loc[p].username
              /\ reqs[p][2].Password = loc[p].password

C18_Witness ==
    \E p \in Procs :
        /\ FetchStarted(p)
        /\ WasSent(p, "passwordSaved")
        /\ pre[p].users[Sender(p)].portalPassword = <<>>
        /\ Len(reqs[p]) >= 2


\* ------------------------------------------------------------------------
\* C19: when the handling of an event ends in the 500 response, the stage
\* and the stored credentials of the sender are what they were when the
\* event arrived.
\* ------------------------------------------------------------------------
SameAsBefore(p) ==
    LET u == Sender(p) IN
    /\ Stage(userStates, u) = Stage(pre[p].userStates, u)
    /\ StoredUsername(users, u) = StoredUsername(pre[p].users, u)
    /\ StoredPassword(users, u) = StoredPassword(pre[p].users, u)

C19_ErrorLeavesState ==
    \A p \in Procs : Done(p) /\ res[p] = 500 => SameAsBefore(p)

\* the same, for the failures thrown before any message was sent
C19_EarlyErrorLeavesState ==
    \A p \in Procs : Done(p) /\ res[p] = 500 /\ sent[p] = <<>> => SameAsBefore(p)


\* ------------------------------------------------------------------------
\* C20: in every reachable state a user whose stage is awaiting_username or
\* awaiting_password has a profile, and a user whose stage is
\* awaiting_password has a stored portalUsername that is not null.
\* ------------------------------------------------------------------------
C20_StageHasProfile ==
    \A u \in Users :
        /\ MapHas(userStates, u) =>
              /\ userStates[u] \in {"awaiting_username", "awaiting_password"}
              /\ MapHas(users, u)
        /\ Stage(userStates, u) = "awaiting_password" =>
              users[u].portalUsername \notin {Null, Undefined}

C20_Witness ==
    /\ Stage(userStates, "u1") = "awaiting_password"
    /\ users["u1"].portalUsername \notin {Null, Undefined}
    /\ Stage(userStates, "u2") = "awaiting_username"
    /\ MapHas(users, "u2")


\* ------------------------------------------------------------------------
\* C16: two events of one user whose handling overlaps can leave the user's
\* stage and credentials in a state that neither of the two serial orders
\* of the events produces. The interleaving that does it: the first event
\* is a whitespace-only text consumed as the password, and the second, a
\* text that is not empty, arrives while the first is suspended at the
\* "Password saved" message. Whenever that happens and every send resolves,
\* the final state is the one of neither serial order.
\* (Specification SpecRace.)
\* ------------------------------------------------------------------------

\* what is stored for user u now, and when the event of p arrived
Stored(u) == [users |-> MapOnly(users, u), userStates |-> MapOnly(userStates, u)]
Before(p) == [users |-> pre[p].users, userStates |-> pre[p].userStates]

\* no awaited send of invocation p was rejected
SendsResolved(p) == res[p] = 200 /\ loc[p].err # "SendError"

\* both events have been handled; the one of p1 arrived first
BothHandled ==
    /\ Done("p1") /\ Done("p2")
    /\ Sender("p1") = RaceUser /\ Sender("p2") = RaceUser

SerialOutcomes ==
    LET u == RaceUser
        fn == msg["p1"].first_name
        s0 == Before("p1")
        t1 == msg["p1"].text
        t2 == msg["p2"].text
    IN  {Handled(Handled(s0, u, fn, t1), u, fn, t2),
         Handled(Handled(s0, u, fn, t2), u, fn, t1)}

NotSerial == BothHandled /\ Stored(RaceUser) \notin SerialOutcomes

\* the second event arrived while the first, whose whitespace was stored as
\* the password, was suspended at its "Password saved" message
OvertakenPasswordEntry ==
    /\ BothHandled
    /\ SendsResolved("p1") /\ SendsResolved("p2")
    /\ Stage(Before("p1").userStates, RaceUser) = "awaiting_password"
    /\ ~Falsy(Before("p1").users[RaceUser].portalUsername)
    /\ Trim(msg["p1"].text) = <<>>
    /\ Stage(Before("p2").userStates, RaceUser) = "none"
    /\ Before("p2").users[RaceUser].portalPassword = <<>>
    /\ Trim(msg["p2"].text) # <<>>

C16_SameUserRace == OvertakenPasswordEntry => NotSerial

C16_Witness ==
    /\ OvertakenPasswordEntry
    /\ NotSerial
    /\ msg["p2"].text = BtnGrades
    /\ Stage(userStates, RaceUser) = "awaiting_password"
    /\ users[RaceUser].portalPassword = <<>>

\* Handled is what an event handled alone leaves behind
HandledAloneMatches ==
    \A p \in Procs : Done(p) /\ (SendsResolved(p) \/ sent[p] = <<>>) =>
        Stored(Sender(p)) =
            Handled(Before(p), Sender(p), msg[p].first_name, msg[p].text)

====
